---- MODULE Spec2Model ----
(***************************************************************************)
(* Model of src/main.py (VocalEdge_AI): the menu loop of main, the live    *)
(* capture loop of record_and_process, the feature extraction, scoring,    *)
(* level mapping and suggestion rules of analyze_voice, print_report and   *)
(* save_report.                                                            *)
(*                                                                         *)
(* Units.  Real-valued quantities are kept as exact integers:              *)
(*   pitch_mean, pitch_std            Hz                                   *)
(*   energy_mean, energy_std          thousandths (EnergyScale)            *)
(*   normalized_*                     hundredths  (NormScale)              *)
(*   confidence_score                 hundredths of a point (NormScale)    *)
(*   total_silence_duration           samples (seconds times rate)         *)
(* On these grids every product and quotient of the scoring lines 60-72 is *)
(* exact.  The outputs of the librosa/scipy calls (piptrack, rms, split,   *)
(* find_peaks) are inputs of the model drawn from small sets; what the     *)
(* repository's own code does with them is modelled in full.               *)
(***************************************************************************)
EXTENDS Integers, Sequences, FiniteSets, TLC

VARIABLES pc, choice, file_exists, frames, y,
          pitch_mean, pitch_std, energy_mean, energy_std,
          non_silent, pause_count, total_silence_duration, filler_count,
          debug, result, report_str, saved_file, out

vars == <<pc, choice, file_exists, frames, y,
          pitch_mean, pitch_std, energy_mean, energy_std,
          non_silent, pause_count, total_silence_duration, filler_count,
          debug, result, report_str, saved_file, out>>

----------------------------------------------------------------------------
(* Program constants *)

CHUNK == 1024
RATE == 22050
RECORD_SECONDS == 5

EnergyScale == 1000
NormScale == 100

PitchFloor == 50
MedianMinLen == 5
HopLength == 512
MinPauseNum == 25
MinPauseDen == 100
PeaksPerFiller == 30
PeakDistance == 1000

PitchStdRef == 50
EnergyFactor == 50
FillerRef == 10
PauseRef == 5

StartScore == 100
PitchWeight == 20
EnergyWeight == 25
FillerWeight == 30
PauseWeight == 25

ConfidentMin == 75
ModerateMin == 50

PitchRule == 20
EnergyRuleMilli == 20
FillerRule == 3
PauseRule == 3

----------------------------------------------------------------------------
(* Bounds of the model *)

MaxFrames == 6
MaxEnergyFrames == 2
MaxSpans == 3
MaxPeaks == 95
MaxPitchStd == 52
MaxEnergy == 21
MaxFillers == 11
MaxPauses == 6

PitchSet == {0, 100, 300}
EnergySet == {0, 20, 50}
GapHops == {10, 11}
SpanHops == 1
FileLens == {1, 22050}

----------------------------------------------------------------------------
(* Helpers *)

Min(a, b) == IF a < b THEN a ELSE b

Max(a, b) == IF a > b THEN a ELSE b

\* np.clip(x, lo, hi)
Clip(x, lo, hi) == Max(lo, Min(x, hi))

RECURSIVE SumSeq(_)
SumSeq(s) == IF s = <<>> THEN 0 ELSE Head(s) + SumSeq(Tail(s))

RECURSIVE SumSq(_)
SumSq(s) == IF s = <<>> THEN 0 ELSE Head(s) * Head(s) + SumSq(Tail(s))

\* floor of the square root, by bisection on [lo, hi); 46340 is the largest
\* root whose square is a 32-bit integer
RECURSIVE SqrtIn(_, _, _)
SqrtIn(v, lo, hi) ==
    IF hi - lo <= 1 THEN lo
    ELSE LET mid == (lo + hi) \div 2
         IN IF mid * mid <= v THEN SqrtIn(v, mid, hi) ELSE SqrtIn(v, lo, mid)

ISqrt(v) == SqrtIn(v, 0, Min(v, 46340) + 1)

\* np.mean, rounded down to the grid
Mean(s) == SumSeq(s) \div Len(s)

\* np.std (population standard deviation), rounded down to the grid:
\* sqrt(n * sum(x^2) - sum(x)^2) / n
Std(s) == ISqrt(Len(s) * SumSq(s) - SumSeq(s) * SumSeq(s)) \div Len(s)

\* all sequences over S of length lo..hi
SeqsOf(S, lo, hi) == UNION {[1..n -> S] : n \in lo..hi}

----------------------------------------------------------------------------
(* analyze_voice, lines 19-31: pitch statistics *)

\* lines 22-26: keep the per-frame pitch only where it exceeds 50 Hz
PitchValues(pitches) == SelectSeq(pitches, LAMBDA p : p > PitchFloor)

\* scipy.ndimage.median_filter boundary mode 'reflect': (d c b a | a b c d | d c b a)
Reflect(i, n) == IF i < 1 THEN 1 - i ELSE IF i > n THEN 2 * n + 1 - i ELSE i

Window(s, i) == [k \in 1..5 |-> s[Reflect(i + k - 3, Len(s))]]

Median5(w) ==
    CHOOSE m \in {w[k] : k \in 1..5} :
        /\ Cardinality({k \in 1..5 : w[k] <= m}) >= 3
        /\ Cardinality({k \in 1..5 : w[k] >= m}) >= 3

\* lines 28-29: median_filter(pitch_values, size=5) when more than 5 values
Smooth(pv) ==
    IF Len(pv) > MedianMinLen THEN [i \in 1..Len(pv) |-> Median5(Window(pv, i))]
    ELSE pv

\* line 30
PitchStd(pv) == IF Len(pv) > 0 THEN Std(pv) ELSE 0

\* line 31
PitchMean(pv) == IF Len(pv) > 0 THEN Mean(pv) ELSE 0

----------------------------------------------------------------------------
(* analyze_voice, lines 38-46: pause detection over the voiced spans *)

\* line 44: gap / rate > 0.25, with gap in samples
IsPause(gap, rate) == gap * MinPauseDen > MinPauseNum * rate

GapFromStart(spans, i) == spans[i][1] - spans[i - 1][1]

\* line 43: non_silent[i][0] - non_silent[i - 1][1] (1-based position i >= 2)
Gap(spans, i) == spans[i][1] - spans[i - 1][2]

\* lines 40-46: the loop from position i to the end, accumulating
\* <<pause_count, total_silence_duration>>
RECURSIVE PauseLoop(_, _, _, _)
PauseLoop(spans, rate, i, acc) ==
    IF i > Len(spans) THEN acc
    ELSE PauseLoop(spans, rate, i + 1,
                   IF IsPause(Gap(spans, i), rate)
                   THEN <<acc[1] + 1, acc[2] + Gap(spans, i)>>
                   ELSE acc)

\* range(1, len(non_silent)) is positions 2..Len in 1-based indexing
Pauses(spans, rate) == PauseLoop(spans, rate, 2, <<0, 0>>)

----------------------------------------------------------------------------
(* analyze_voice, lines 48-51: filler approximation *)

\* line 51: len(peaks) // 30
FillerCount(n_peaks) == n_peaks \div PeaksPerFiller

----------------------------------------------------------------------------
(* analyze_voice, lines 59-72: normalization and confidence score *)

\* line 60: np.clip(pitch_std / 50.0, 0, 1)
NormalizedPitchStd(ps) == Clip((ps * NormScale) \div PitchStdRef, 0, NormScale)

NormalizedEnergyUnclipped(em) == (em * EnergyFactor * NormScale) \div EnergyScale

\* line 61: np.clip(energy_mean * 50, 0, 1)
NormalizedEnergy(em) ==
    Clip((em * EnergyFactor * NormScale) \div EnergyScale, 0, NormScale)

\* line 62: np.clip(filler_count / 10, 0, 1)
NormalizedFillers(fc) == Clip((fc * NormScale) \div FillerRef, 0, NormScale)

NormalizedPausesWrapped(n) == ((n % PauseRef) * NormScale) \div PauseRef

\* line 63: np.clip(pause_count / 5, 0, 1)
NormalizedPauses(n) == Clip((n * NormScale) \div PauseRef, 0, NormScale)

EnergyPenaltyInverted(em) == NormalizedEnergy(em) * EnergyWeight

\* line 68: (1 - normalized_energy) * 25
EnergyPenalty(em) == (NormScale - NormalizedEnergy(em)) * EnergyWeight

\* lines 66-72
ConfidenceScore(ps, em, fc, n) ==
    Max(StartScore * NormScale
          - NormalizedPitchStd(ps) * PitchWeight
          - EnergyPenalty(em)
          - NormalizedFillers(fc) * FillerWeight
          - NormalizedPauses(n) * PauseWeight,
        0)

LevelStrict(score) ==
    IF score > ConfidentMin * NormScale THEN "Confident"
    ELSE IF score > ModerateMin * NormScale THEN "Moderate"
    ELSE "Needs Improvement"

\* lines 75-80
Level(score) ==
    IF score >= ConfidentMin * NormScale THEN "Confident"
    ELSE IF score >= ModerateMin * NormScale THEN "Moderate"
    ELSE "Needs Improvement"

----------------------------------------------------------------------------
(* analyze_voice, lines 82-91: suggestions *)

MsgPitch == "Increase pitch variation to sound more engaging."
MsgEnergy == "Speak with more volume and energy."
MsgFillers == "Practice reducing filler words like 'um' and 'uh'."
MsgPauses == "Minimize long pauses for smoother delivery."

When(cond, msg) == IF cond THEN <<msg>> ELSE <<>>

SuggestionsFillerStrict(ps, em, fc, n) ==
    When(ps < PitchRule, MsgPitch)
      \o When(em < EnergyRuleMilli, MsgEnergy)
      \o When(fc > FillerRule, MsgFillers)
      \o When(n >= PauseRule, MsgPauses)

Suggestions(ps, em, fc, n) ==
    When(ps < PitchRule, MsgPitch)
      \o When(em < EnergyRuleMilli, MsgEnergy)
      \o When(fc >= FillerRule, MsgFillers)
      \o When(n >= PauseRule, MsgPauses)

----------------------------------------------------------------------------
(* Printed text: a line is its label, its text and its number with the     *)
(* number of decimals of its format specifier.                             *)

Item(label, text, num, decimals) ==
    [label |-> label, text |-> text, num |-> num, decimals |-> decimals]

MsgFluent == "Your voice sounds confident and fluent!"

\* lines 53-57
DebugInfo(pm, ps, em, es, n, tsd, fc) ==
    << Item("[DEBUG INFO]", "", 0, 0),
       Item("Pitch Mean", "Hz", pm, 1),
       Item("STD", "", ps, 2),
       Item("Energy Mean", "", em, 5),
       Item("STD", "", es, 5),
       Item("Pauses", "", n, 0),
       Item("Total Silence", "s", tsd, 2),
       Item("Filler Count", "", fc, 0) >>

RECURSIVE Bullets(_)
Bullets(ss) ==
    IF ss = <<>> THEN <<>> ELSE <<Item("-", Head(ss), 0, 0)>> \o Bullets(Tail(ss))

\* lines 123-137, on the tuple returned by analyze_voice
Report(r) ==
    << Item("Voice Health Report", "", 0, 0),
       Item("Confidence Level", r[1], r[2], 1),
       Item("Pitch Mean", "Hz", r[4], 1),
       Item("Pitch STD", "", r[5], 2),
       Item("Energy Mean", "", r[6], 5),
       Item("Energy STD", "", r[7], 5),
       Item("Pauses Detected", "", r[8], 0),
       Item("Fillers Estimated", "", r[9], 0) >>
    \o (IF r[3] # <<>>
        THEN <<Item("Suggestions to Improve:", "", 0, 0)>> \o Bullets(r[3])
        ELSE <<Item(MsgFluent, "", 0, 0)>>)

\* save_choice.lower() on the answers the model draws
Lower(s) == IF s = "Y" THEN "y" ELSE IF s = "N" THEN "n" ELSE s

----------------------------------------------------------------------------
(* Inputs *)

\* line 110: int(RATE / CHUNK * RECORD_SECONDS)
NumReads == (RATE * RECORD_SECONDS) \div CHUNK

NoBuffer == [len |-> 0, silent |-> TRUE]

\* librosa.effects.split, line 39: spans start and end on hop boundaries,
\* the last end is cut to the buffer length
RECURSIVE SpansFrom(_, _, _)
SpansFrom(gaps, start, len) ==
    LET span == <<start * HopLength, Min((start + SpanHops) * HopLength, len)>>
    IN IF gaps = <<>> THEN <<span>>
       ELSE <<span>> \o SpansFrom(Tail(gaps), start + SpanHops + Head(gaps), len)

VoicedSpans(buf) ==
    IF buf.silent THEN {<<>>, << <<0, buf.len>> >>}
    ELSE {s \in {SpansFrom(g, 0, buf.len) : g \in SeqsOf(GapHops, 0, MaxSpans - 1)} :
             s[Len(s)][1] < buf.len}

\* librosa.piptrack + argmax, lines 20-24: one pitch per frame, 0 on a frame
\* without a spectral peak; an all-zero buffer has none
FramePitches(buf) ==
    IF buf.silent THEN {[i \in 1..n |-> 0] : n \in 1..MaxFrames}
    ELSE SeqsOf(PitchSet, 1, MaxFrames)

\* librosa.feature.rms, line 34
FrameEnergies(buf) ==
    IF buf.silent THEN {[i \in 1..n |-> 0] : n \in 1..MaxEnergyFrames}
    ELSE SeqsOf(EnergySet, 1, MaxEnergyFrames)

\* scipy find_peaks on the smoothed envelope, line 50: the number of peaks
\* (at least PeakDistance samples apart)
PeakCounts(buf) ==
    IF buf.silent THEN {0} ELSE 0..Min(MaxPeaks, buf.len \div PeakDistance)

----------------------------------------------------------------------------
(* State machine of main.  file_exists is the value of os.path.exists in    *)
(* the current iteration (FALSE until a path has been entered).            *)

MenuText == "Choose input method:"

InvalidChoices == {"", "4", "x"}
SaveAnswers == {"y", "Y", "n", ""}

NoFeatures ==
    /\ pitch_mean = 0 /\ pitch_std = 0
    /\ energy_mean = 0 /\ energy_std = 0
    /\ non_silent = <<>> /\ pause_count = 0 /\ total_silence_duration = 0
    /\ filler_count = 0

Init ==
    /\ pc = "menu"
    /\ choice = ""
    /\ file_exists = FALSE
    /\ frames = 0
    /\ y = NoBuffer
    /\ NoFeatures
    /\ debug = <<>>
    /\ result = <<>>
    /\ report_str = <<>>
    /\ saved_file = <<>>
    /\ out = <<MenuText>>

features == <<pitch_mean, pitch_std, energy_mean, energy_std,
              non_silent, pause_count, total_silence_duration, filler_count>>

outputs == <<debug, result, report_str, saved_file>>

\* lines 158-161 and 101-109: choice '1' opens the stream
ChooseLive ==
    /\ pc = "menu"
    /\ choice' = "1"
    /\ frames' = 0
    /\ file_exists' = FALSE
    /\ out' = <<"Speak now... (Recording for 5 seconds)">>
    /\ pc' = "recording"
    /\ UNCHANGED <<y, features, outputs>>

\* lines 110-112: one stream.read(CHUNK)
ReadChunk ==
    /\ pc = "recording"
    /\ frames < NumReads
    /\ frames' = frames + 1
    /\ UNCHANGED <<pc, choice, file_exists, y, features, outputs, out>>

\* lines 114-121: the loop is over, the frames are joined and analyze_voice is called
FinishRecording ==
    /\ pc = "recording"
    /\ frames = NumReads
    /\ \E silent \in BOOLEAN : y' = [len |-> frames * CHUNK, silent |-> silent]
    /\ out' = <<"Processing your voice...">>
    /\ pc' = "pitch"
    /\ UNCHANGED <<choice, file_exists, frames, features, outputs>>

\* lines 162-163
ChooseFile ==
    /\ pc = "menu"
    /\ choice' = "2"
    /\ file_exists' = FALSE
    /\ out' = <<"Enter path to audio file (.wav or .mp3): ">>
    /\ pc' = "ask_path"
    /\ UNCHANGED <<frames, y, features, outputs>>

FileNotFoundProceeds ==
    /\ pc = "ask_path"
    /\ file_exists' = FALSE
    /\ \E len \in FileLens, silent \in BOOLEAN : y' = [len |-> len, silent |-> silent]
    /\ out' = <<"File not found.">>
    /\ pc' = "pitch"
    /\ UNCHANGED <<choice, frames, features, outputs>>

\* lines 164-166: the path does not exist
FileNotFound ==
    /\ pc = "ask_path"
    /\ file_exists' = FALSE
    /\ out' = <<"File not found.", MenuText>>
    /\ pc' = "menu"
    /\ UNCHANGED <<choice, frames, y, features, outputs>>

\* lines 167, 96-98: the path exists, librosa.load resamples it to RATE
LoadFile ==
    /\ pc = "ask_path"
    /\ file_exists' = TRUE
    /\ \E len \in FileLens, silent \in BOOLEAN : y' = [len |-> len, silent |-> silent]
    /\ out' = <<>>
    /\ pc' = "pitch"
    /\ UNCHANGED <<choice, frames, features, outputs>>

\* lines 168-170
ChooseExit ==
    /\ pc = "menu"
    /\ choice' = "3"
    /\ file_exists' = FALSE
    /\ out' = <<"Exiting... Stay vocal!">>
    /\ pc' = "exit"
    /\ UNCHANGED <<frames, y, features, outputs>>

\* lines 171-173
ChooseInvalid ==
    /\ pc = "menu"
    /\ \E c \in InvalidChoices : choice' = c
    /\ file_exists' = FALSE
    /\ out' = <<"Invalid choice.", MenuText>>
    /\ pc' = "menu"
    /\ UNCHANGED <<frames, y, features, outputs>>

\* analyze_voice lines 17-31.  Dividing by the peak (line 17) changes neither
\* the length of y nor whether all its samples are zero.
TrackPitch ==
    /\ pc = "pitch"
    /\ \E pitches \in FramePitches(y) :
          LET pitch_values == Smooth(PitchValues(pitches))
          IN /\ pitch_std' = PitchStd(pitch_values)
             /\ pitch_mean' = PitchMean(pitch_values)
    /\ pc' = "energy"
    /\ UNCHANGED <<choice, file_exists, frames, y, energy_mean, energy_std,
                   non_silent, pause_count, total_silence_duration, filler_count,
                   outputs, out>>

\* analyze_voice lines 33-36
MeasureEnergy ==
    /\ pc = "energy"
    /\ \E energy \in FrameEnergies(y) :
          /\ energy_mean' = Mean(energy)
          /\ energy_std' = Std(energy)
    /\ pc' = "pauses"
    /\ UNCHANGED <<choice, file_exists, frames, y, pitch_mean, pitch_std,
                   non_silent, pause_count, total_silence_duration, filler_count,
                   outputs, out>>

\* analyze_voice lines 38-46
DetectPauses ==
    /\ pc = "pauses"
    /\ \E spans \in VoicedSpans(y) :
          /\ non_silent' = spans
          /\ pause_count' = Pauses(spans, RATE)[1]
          /\ total_silence_duration' = Pauses(spans, RATE)[2]
    /\ pc' = "fillers"
    /\ UNCHANGED <<choice, file_exists, frames, y, pitch_mean, pitch_std,
                   energy_mean, energy_std, filler_count, outputs, out>>

\* analyze_voice lines 48-57
CountFillers ==
    /\ pc = "fillers"
    /\ \E n_peaks \in PeakCounts(y) :
          /\ filler_count' = FillerCount(n_peaks)
          /\ debug' = DebugInfo(pitch_mean, pitch_std, energy_mean, energy_std,
                                pause_count, total_silence_duration,
                                FillerCount(n_peaks))
    /\ out' = debug'
    /\ pc' = "score"
    /\ UNCHANGED <<choice, file_exists, frames, y, pitch_mean, pitch_std,
                   energy_mean, energy_std, non_silent, pause_count,
                   total_silence_duration, result, report_str, saved_file>>

\* lines 93-94: the tuple analyze_voice returns
ResultTuple(level, score, suggestions, pm, ps, em, es, n, fc) ==
    <<level, score, suggestions, pm, ps, em, es, n, fc>>

\* analyze_voice lines 59-94
Score ==
    /\ pc = "score"
    /\ LET confidence_score ==
               ConfidenceScore(pitch_std, energy_mean, filler_count, pause_count)
       IN result' = ResultTuple(Level(confidence_score), confidence_score,
                                Suggestions(pitch_std, energy_mean,
                                            filler_count, pause_count),
                                pitch_mean, pitch_std, energy_mean, energy_std,
                                pause_count, filler_count)
    /\ pc' = "print_report"
    /\ UNCHANGED <<choice, file_exists, frames, y, features,
                   debug, report_str, saved_file, out>>

\* line 175 and print_report, lines 123-137
PrintReport ==
    /\ pc = "print_report"
    /\ report_str' = Report(result)
    /\ out' = report_str'
    /\ pc' = "save_report"
    /\ UNCHANGED <<choice, file_exists, frames, y, features,
                   debug, result, saved_file>>

\* line 176 and save_report, lines 139-150; a failed write is caught
SaveReport ==
    /\ pc = "save_report"
    /\ \E save_choice \in SaveAnswers, write_ok \in BOOLEAN :
          IF Lower(save_choice) = "y"
          THEN IF write_ok
               THEN /\ saved_file' = report_str
                    /\ out' = <<"Report saved as">>
               ELSE /\ saved_file' = saved_file
                    /\ out' = <<"Failed to save report:">>
          ELSE /\ saved_file' = saved_file
               /\ out' = <<"Report not saved.">>
    /\ pc' = "returning"
    /\ UNCHANGED <<choice, file_exists, frames, y, features,
                   debug, result, report_str>>

\* line 177 and the top of the loop, lines 153-157.  The values of the
\* finished iteration are never read again and are dropped here.
ReturnToMenu ==
    /\ pc = "returning"
    /\ out' = <<"Analysis complete. Returning to menu...", MenuText>>
    /\ pc' = "menu"
    /\ frames' = 0
    /\ y' = NoBuffer
    /\ pitch_mean' = 0 /\ pitch_std' = 0
    /\ energy_mean' = 0 /\ energy_std' = 0
    /\ non_silent' = <<>> /\ pause_count' = 0 /\ total_silence_duration' = 0
    /\ filler_count' = 0
    /\ debug' = <<>>
    /\ result' = <<>>
    /\ report_str' = <<>>
    /\ saved_file' = <<>>
    /\ UNCHANGED <<choice, file_exists>>

Next ==
    \/ ChooseLive
    \/ ReadChunk
    \/ FinishRecording
    \/ ChooseFile
    \/ FileNotFound
    \/ LoadFile
    \/ ChooseExit
    \/ ChooseInvalid
    \/ TrackPitch
    \/ MeasureEnergy
    \/ DetectPauses
    \/ CountFillers
    \/ Score
    \/ PrintReport
    \/ SaveReport
    \/ ReturnToMenu

Spec == Init /\ [][Next]_vars

----------------------------------------------------------------------------
(* The scorer alone: analyze_voice from line 59 on, over every feature      *)
(* summary of the grid, followed by print_report.  The initial states are  *)
(* those of a 20 s file at line 59.                                        *)

\* the pauses of a recording with n + 1 voiced spans, each gap just over 0.25 s
ScorerSpans(n) == SpansFrom([i \in 1..n |-> 11], 0, 20 * RATE)

ScorerInit ==
    /\ pc = "score"
    /\ choice = "2"
    /\ file_exists = TRUE
    /\ frames = 0
    /\ y = [len |-> 20 * RATE, silent |-> FALSE]
    /\ pitch_mean = 200
    /\ pitch_std \in 0..MaxPitchStd
    /\ energy_mean \in 0..MaxEnergy
    /\ energy_std = 0
    /\ pause_count \in 0..MaxPauses
    /\ non_silent = ScorerSpans(pause_count)
    /\ total_silence_duration = Pauses(non_silent, RATE)[2]
    /\ filler_count \in 0..MaxFillers
    /\ debug = DebugInfo(pitch_mean, pitch_std, energy_mean, energy_std,
                         pause_count, total_silence_duration, filler_count)
    /\ result = <<>>
    /\ report_str = <<>>
    /\ saved_file = <<>>
    /\ out = debug

ScorerNext == Score \/ PrintReport

ScorerSpec == ScorerInit /\ [][ScorerNext]_vars

----------------------------------------------------------------------------
(* Properties *)

\* the tuple returned by analyze_voice, by position
Returned == result # <<>>
RLevel == result[1]
RScore == result[2]
RSuggestions == result[3]
RPitchStd == result[5]
REnergyMean == result[6]
RPauseCount == result[8]
RFillerCount == result[9]

\* C1: for non-negative pitch_std, energy_mean, filler_count and pause_count
\* the confidence score returned by analyze_voice lies in [0, 100]; each of
\* the four subtracted terms is non-negative and at most 20, 25, 30, 25.
C1_ScoreInRange ==
    Returned =>
       /\ RPitchStd >= 0 /\ REnergyMean >= 0 /\ RFillerCount >= 0 /\ RPauseCount >= 0
       /\ RScore >= 0
       /\ RScore <= 100 * NormScale
       /\ NormalizedPitchStd(RPitchStd) * PitchWeight \in 0..(20 * NormScale)
       /\ EnergyPenalty(REnergyMean) \in 0..(25 * NormScale)
       /\ NormalizedFillers(RFillerCount) * FillerWeight \in 0..(30 * NormScale)
       /\ NormalizedPauses(RPauseCount) * PauseWeight \in 0..(25 * NormScale)

\* the worst case: every term at its maximum, the score is 0
C1_Witness ==
    /\ Returned
    /\ RPitchStd > PitchStdRef /\ REnergyMean = 0
    /\ RFillerCount > FillerRef /\ RPauseCount > PauseRef
    /\ RScore = 0

\* C2: the level is a step function of the score alone: >= 75 "Confident",
\* 50 <= score < 75 "Moderate", < 50 "Needs Improvement"; exactly one level.
C2_LevelIsStepFunction ==
    Returned =>
       /\ RLevel \in {"Confident", "Moderate", "Needs Improvement"}
       /\ (RLevel = "Confident") <=> (RScore >= 75 * NormScale)
       /\ (RLevel = "Moderate") <=> (50 * NormScale <= RScore /\ RScore < 75 * NormScale)
       /\ (RLevel = "Needs Improvement") <=> (RScore < 50 * NormScale)

\* a score of exactly 75 is "Confident"
C2_Witness == Returned /\ RScore = 75 * NormScale /\ RLevel = "Confident"

C4_LowPitchVariationPenalized ==
    Returned =>
       \A ps \in 0..MaxPitchStd :
          ps < RPitchStd =>
             ConfidenceScore(ps, REnergyMean, RFillerCount, RPauseCount) <= RScore

\* C5: pause_count is the number of consecutive span pairs whose gap exceeds
\* 0.25 s and the total silence is the sum of exactly those gaps; zero or one
\* span gives 0 and 0.
PausesDetected == pc \in {"fillers", "score", "print_report", "save_report", "returning"}

GapAfter(i) == non_silent[i + 1][1] - non_silent[i][2]

LongGaps == {i \in 1..(Len(non_silent) - 1) : 4 * GapAfter(i) > RATE}

RECURSIVE SumGaps(_)
SumGaps(I) ==
    IF I = {} THEN 0
    ELSE LET i == CHOOSE j \in I : TRUE IN GapAfter(i) + SumGaps(I \ {i})

C5_PausesAreLongGaps ==
    PausesDetected =>
       /\ \A i \in 1..Len(non_silent) : non_silent[i][1] < non_silent[i][2]
       /\ \A i \in 1..(Len(non_silent) - 1) : GapAfter(i) > 0
       /\ pause_count = Cardinality(LongGaps)
       /\ total_silence_duration = SumGaps(LongGaps)
       /\ (Len(non_silent) <= 1 => pause_count = 0 /\ total_silence_duration = 0)

\* three spans, two gaps longer than 0.25 s
C5_Witness ==
    /\ PausesDetected
    /\ Len(non_silent) = 3
    /\ pause_count = 2
    /\ total_silence_duration = GapAfter(1) + GapAfter(2)

\* C6: the suggestions are exactly the messages of the rules that hold on
\* the raw features, in the fixed order pitch, energy, fillers, pauses; any
\* of the 16 subsets can fire; the report has the "confident and fluent"
\* line iff no rule fired and otherwise lists each suggestion once, in order.
Msg(k) ==
    CASE k = 1 -> MsgPitch [] k = 2 -> MsgEnergy
      [] k = 3 -> MsgFillers [] k = 4 -> MsgPauses

RuleHolds(k, ps, em, fc, n) ==
    CASE k = 1 -> ps < 20 [] k = 2 -> em < 20
      [] k = 3 -> fc >= 3 [] k = 4 -> n >= 3

Fired == {k \in 1..4 : RuleHolds(k, RPitchStd, REnergyMean, RFillerCount, RPauseCount)}

RuleOf(text) == CHOOSE k \in 1..4 : Msg(k) = text

ListedInReport == SelectSeq(report_str, LAMBDA item : item.label = "-")

C6_AllSubsetsFire ==
    \A S \in SUBSET (1..4) :
       \E ps \in {0, PitchRule}, em \in {0, EnergyRuleMilli},
          fc \in {0, FillerRule}, n \in {0, PauseRule} :
          /\ {k \in 1..4 : RuleHolds(k, ps, em, fc, n)} = S
          /\ {Suggestions(ps, em, fc, n)[i] :
                 i \in 1..Len(Suggestions(ps, em, fc, n))} = {Msg(k) : k \in S}

C6_SuggestionsMatchRules ==
    /\ pc = "score" => C6_AllSubsetsFire
    /\ Returned =>
         /\ \A i \in 1..Len(RSuggestions) : \E k \in 1..4 : RSuggestions[i] = Msg(k)
         /\ \A k \in 1..4 :
               (\E i \in 1..Len(RSuggestions) : RSuggestions[i] = Msg(k)) <=> k \in Fired
         /\ \A i, j \in 1..Len(RSuggestions) :
               i < j => RuleOf(RSuggestions[i]) < RuleOf(RSuggestions[j])
    /\ report_str # <<>> =>
         /\ (\E i \in 1..Len(report_str) : report_str[i].label = MsgFluent)
               <=> Fired = {}
         /\ [i \in 1..Len(ListedInReport) |-> ListedInReport[i].text] = RSuggestions

\* all four rules fired and the report lists the four messages
C6_Witness ==
    /\ report_str # <<>>
    /\ Fired = 1..4
    /\ Len(ListedInReport) = 4

\* C7: a buffer of pure silence of any non-zero length goes through the
\* pipeline without error: pitch mean = pitch std = 0, energy mean =
\* energy std = 0, no pauses, no fillers, score exactly 75, "Confident".
SilentInput == y.silent /\ y.len > 0

C8_TotalSilenceReported ==
    /\ Returned => Len(result) = 10
    /\ report_str # <<>> =>
          \E i \in 1..Len(report_str) :
             /\ report_str[i].label = "Total Silence"
             /\ report_str[i].num = total_silence_duration

\* C9: the buffer record_and_process passes to analyze_voice holds
\* RATE * RECORD_SECONDS = 110250 samples.
C9_CaptureIsFiveSeconds ==
    (choice = "1" /\ pc = "pitch") =>
       /\ y.len = RATE * RECORD_SECONDS
       /\ frames * CHUNK = 5 * 22050

\* C10: analyze_voice is never entered for a missing file or an invalid
\* choice (those iterations print an error, leave no report and no save
\* prompt, and go back to the menu); an analysis is followed by print_report
\* and then save_report before the menu returns; the loop is left only on
\* choice 3.
Analysing == {"pitch", "energy", "pauses", "fillers", "score"}

C10_Step ==
    /\ pc' \in Analysing => (choice' = "1" \/ (choice' = "2" /\ file_exists'))
    /\ (pc = "menu" /\ choice' \notin {"1", "2", "3"}) =>
          /\ pc' = "menu"
          /\ out' = <<"Invalid choice.", MenuText>>
          /\ result' = <<>> /\ report_str' = <<>> /\ saved_file' = <<>>
    /\ (pc = "ask_path" /\ ~file_exists') =>
          /\ pc' = "menu"
          /\ out' = <<"File not found.", MenuText>>
          /\ result' = <<>> /\ report_str' = <<>> /\ saved_file' = <<>>
    /\ pc = "score" => (pc' = "print_report" /\ result' # <<>>)
    /\ pc = "print_report" => (pc' = "save_report" /\ report_str' = Report(result))
    /\ pc = "save_report" => pc' = "returning"
    /\ (pc' = "menu" /\ pc \notin {"menu", "ask_path"}) =>
          (pc = "returning" /\ result # <<>> /\ report_str # <<>>)
    /\ pc' = "exit" => (pc = "menu" /\ choice' = "3")
    /\ pc # "exit"

====
